---- MODULE Spec2Model ----
(***************************************************************************)
(* AGE, the Abstract Gamification Engine: GameEngine (an EventEmitter),    *)
(* MemoryDataStore / DataStore, AchievementRule and countAchievement.      *)
(*                                                                         *)
(* JavaScript runs the engine on one thread, but listeners may call        *)
(* addEvent again from inside emit, so a call of addEvent is a frame on a  *)
(* call stack and each listener invocation, the getPlayer after the emit,  *)
(* each rule's key resolution and each evaluateSingleAchievement is one    *)
(* step of the top frame.  A throw unwinds the whole stack: no code of the *)
(* engine (nor of the EventEmitter) catches.                               *)
(***************************************************************************)
EXTENDS Integers, Sequences, FiniteSets, TLC

\* ------------------------------------------------------------------ bounds
MaxEvents == 2      \* addEvent calls in one behaviour (top level and nested)
MaxRules == 2       \* length of achievementRules
MaxListeners == 2   \* listeners per notification type
MaxSetup == 3       \* rules and listeners registered, taken together
MaxDepth == 2       \* addEvent frames on the call stack
MaxClock == 1       \* latest value of the wall clock
MaxLogins == 3      \* addEvent calls of a scenario (Login)
MaxMultiplicity == 2  \* largest multiplicity of a scenario's rule

\* ------------------------------------------------------------------ values
\* A Player id is `string | number`; s is the id's string form, t its type.
NumId(s) == [t |-> "number", s |-> s]
StrId(s) == [t |-> "string", s |-> s]

\* Player = Record<string, unknown> & { id }: an id and one caller field.
MkPlayer(id, tag) == [id |-> id, tag |-> tag]

Players ==
    { MkPlayer(NumId("1"), "x"), MkPlayer(NumId("1"), "y"),
      MkPlayer(NumId("2"), "x") }

\* gameStates is a plain object: a property key is the string form of the id.
ToPropertyKey(id) == id.s

Keys == { ToPropertyKey(p.id) : p \in Players }

Undefined == [undefined |-> TRUE]

EventNames == {"login", "bonus"}

Event(name) == [name |-> name]

Achievement(name, achieved) == [name |-> name, achieved |-> achieved]

EventItem(timestamp, event) == [timestamp |-> timestamp, event |-> event]

AchievementItem(timestamp, achievement) ==
    [timestamp |-> timestamp, achievement |-> achievement]

IsEventItem(h) == "event" \in DOMAIN h

IsAchievementItem(h) == "achievement" \in DOMAIN h

\* new Date(): the clock as it stands or later, never earlier.
Dates(clock) == { d \in clock .. MaxClock : TRUE }

\* ------------------------------------------------------------------ utils
RECURSIVE CountFrom(_, _, _, _, _)
CountFrom(arr, val, max, i, count) ==
    IF i > Len(arr) THEN count
    ELSE IF arr[i].name = val
         THEN IF max /= 0 /\ count + 1 >= max
              THEN count + 1
              ELSE CountFrom(arr, val, max, i + 1, count + 1)
         ELSE CountFrom(arr, val, max, i + 1, count)

\* countAchievement(arr, val, max): occurrences of val, stopping at max.
countAchievement(arr, val, max) == CountFrom(arr, val, max, 1, 0)

\* Occurrences of a name, uncapped (used by the properties only).
RECURSIVE Occurrences(_, _)
Occurrences(arr, val) ==
    IF arr = <<>> THEN 0
    ELSE (IF Head(arr).name = val THEN 1 ELSE 0) + Occurrences(Tail(arr), val)

\* ------------------------------------------------------------------ rules
\* key: a literal, a list, or a function of (player, engine).
LitKey(k) == [form |-> "literal", v |-> <<k>>, fn |-> "none"]
ListKey(ks) == [form |-> "list", v |-> ks, fn |-> "none"]
FnKey(f) == [form |-> "function", v |-> <<>>, fn |-> f]

\* The defaults of class AchievementRule.
DefaultKey == FnKey("notImplemented")
DefaultPredicate == "notImplemented"
DefaultMultiplicity == 0
DefaultTransient == FALSE

AchievementRule(key, multiplicity, transient, predicate) ==
    [key |-> key, multiplicity |-> multiplicity,
     transient |-> transient, predicate |-> predicate]

\* The rules callers register here.  Predicates: "true", "false", "hasA"
\* (player.achievements has an "a"), "wipe" (empties the achievements and
\* history of the GamePlayer it is given, returns false), "notImplemented".
RuleCatalog ==
    { AchievementRule(LitKey("a"), 1, FALSE, "true"),
      AchievementRule(ListKey(<<"a", "b">>), 1, FALSE, "true"),
      AchievementRule(LitKey("b"), 1, FALSE, "hasA"),
      AchievementRule(LitKey("c"), 0, TRUE, "hasA"),
      AchievementRule(FnKey("seen"), 0, FALSE, "true"),
      AchievementRule(DefaultKey, DefaultMultiplicity, DefaultTransient,
                      DefaultPredicate) }

Digit(n) == CASE n = 0 -> "0" [] n = 1 -> "1" [] n = 2 -> "2" [] n = 3 -> "3"
              [] n = 4 -> "4" [] n = 5 -> "5" [] n = 6 -> "6" [] n = 7 -> "7"
              [] n = 8 -> "8" [] n = 9 -> "9"

RECURSIVE NumToString(_)
NumToString(n) ==
    IF n < 10 THEN Digit(n) ELSE NumToString(n \div 10) \o Digit(n % 10)

\* The key function (player) => "seen-" + player.achievements.length.
KeyFunctionOfAchievements(fn, player) ==
    <<"seen-" \o NumToString(Len(player.achievements))>>

\* A key function: "seen" is (player) => "seen-" + player.history.length.
KeyFunction(fn, player) == <<"seen-" \o NumToString(Len(player.history))>>

\* ------------------------------------------------------------------ store
\* DataStore.makePlayer
makePlayer(data) ==
    [id |-> data.id, achievements |-> <<>>, history |-> <<>>, data |-> data]

\* this.gameStates[player.id] = this.gameStates[player.id] || makePlayer(player)
Ensure(gs, player) ==
    LET k == ToPropertyKey(player.id)
    IN  IF gs[k] /= Undefined THEN gs ELSE [gs EXCEPT ![k] = makePlayer(player)]

\* recordPlayer that makes the player anew on every call.
recordPlayerAnew(gs, player) ==
    [gs EXCEPT ![ToPropertyKey(player.id)] = makePlayer(player)]

\* MemoryDataStore.recordPlayer
recordPlayer(gs, player) == Ensure(gs, player)

\* recordEvent that puts the item at the head of the history (unshift).
recordEventAtHead(gs, player, event, now) ==
    LET k == ToPropertyKey(player.id)
        g == Ensure(gs, player)
    IN  [g EXCEPT ![k].history = <<EventItem(now, event)>> \o @]

\* recordEvent that records for a known player only.
recordEventIfKnown(gs, player, event, now) ==
    LET k == ToPropertyKey(player.id)
    IN  IF gs[k] = Undefined THEN gs
        ELSE [gs EXCEPT ![k].history = Append(@, EventItem(now, event))]

\* recordEvent that pushes the item twice.
recordEventTwice(gs, player, event, now) ==
    LET k == ToPropertyKey(player.id)
        g == Ensure(gs, player)
    IN  [g EXCEPT ![k].history =
                      Append(Append(@, EventItem(now, event)),
                             EventItem(now, event))]

\* MemoryDataStore.recordEvent; now is the value of new Date()
recordEvent(gs, player, event, now) ==
    LET k == ToPropertyKey(player.id)
        g == Ensure(gs, player)
    IN  [g EXCEPT ![k].history = Append(@, EventItem(now, event))]

\* recordAchievement that leaves the history alone.
recordAchievementOnly(gs, player, achievement) ==
    LET k == ToPropertyKey(player.id)
        g == Ensure(gs, player)
    IN  [g EXCEPT ![k].achievements = Append(@, achievement)]

\* recordAchievement that pushes to the history only.
recordAchievementInHistory(gs, player, achievement) ==
    LET k == ToPropertyKey(player.id)
        g == Ensure(gs, player)
    IN  [g EXCEPT ![k].history =
                      Append(@, AchievementItem(achievement.achieved, achievement))]

\* MemoryDataStore.recordAchievement
recordAchievement(gs, player, achievement) ==
    LET k == ToPropertyKey(player.id)
        g == Ensure(gs, player)
    IN  [g EXCEPT ![k].history =
                      Append(@, AchievementItem(achievement.achieved, achievement)),
                  ![k].achievements = Append(@, achievement)]

\* A reference to a GamePlayer object: the object stored under a key (oid is
\* the key, val unused), or an object of its own (oid "copy", val its value).
StoredRef(k) == [oid |-> k, val |-> Undefined]

\* getPlayer without the clone: the reference itself.
SameObject(gs, ref) == ref

\* lodash.clonedeep of the object a reference names: a new object, equal value.
CloneDeep(gs, ref) ==
    IF ref.oid = "copy" THEN ref ELSE [oid |-> "copy", val |-> gs[ref.oid]]

\* The value of the object a reference names.
Deref(gs, ref) == IF ref.oid = "copy" THEN ref.val ELSE gs[ref.oid]

\* Assignment through a reference: the store changes only if the reference
\* names a stored object.
WriteStore(gs, ref, v) ==
    IF ref.oid = "copy" THEN gs ELSE [gs EXCEPT ![ref.oid] = v]

WriteRef(ref, v) == IF ref.oid = "copy" THEN [ref EXCEPT !.val = v] ELSE ref

\* getPlayer that answers with a new GamePlayer when it finds none.
getPlayerOrMake(gs, player) ==
    LET k == ToPropertyKey(player.id)
    IN  IF gs[k] = Undefined THEN [oid |-> "copy", val |-> makePlayer(player)]
        ELSE CloneDeep(gs, StoredRef(k))

\* MemoryDataStore.getPlayer: clonedeep(this.gameStates[player.id])
getPlayer(gs, player) ==
    LET k == ToPropertyKey(player.id)
    IN  IF gs[k] = Undefined THEN Undefined ELSE CloneDeep(gs, StoredRef(k))

\* DataStore.getPlayerHistory / getPlayerAchievements
getPlayerHistory(gs, player) ==
    LET g == getPlayer(gs, player)
    IN  IF g = Undefined THEN <<>> ELSE Deref(gs, g).history

getPlayerAchievements(gs, player) ==
    LET g == getPlayer(gs, player)
    IN  IF g = Undefined THEN <<>> ELSE Deref(gs, g).achievements

\* ------------------------------------------------------------------ state
VARIABLES
    gameStates,         \* MemoryDataStore.gameStates: key -> GamePlayer
    achievementRules,   \* GameEngine.achievementRules
    listeners,          \* listeners registered per notification type
    stack,              \* the addEvent calls in progress, innermost last
    clock,              \* the wall clock read by new Date()
    held,               \* what a caller holds from its last getPlayer
    error,              \* how the last top-level addEvent ended
    lastOp,             \* the last call the application made
    nEvents,            \* addEvent calls so far; a call's number is its eid
    nEmits,             \* emit calls so far; a call's number is its nid
    log,                \* listener invocations, in order
    recorded            \* per key, what the engine asked the store to record

vars == <<gameStates, achievementRules, listeners, stack, clock, held, error,
          lastOp, nEvents, nEmits, log, recorded>>

\* A call of the application: its name, its player argument (or NoPlayer), and
\* whether the store had a GamePlayer under the player's key when it was made.
NoPlayer == MkPlayer(NumId("0"), "")

Op(name, player, existed) == [op |-> name, player |-> player, existed |-> existed]

Exists(player) == gameStates[ToPropertyKey(player.id)] /= Undefined

AGE_ACHIEVED == "achievement-achieved"
AGE_EVENT == "event-occurred"

NoAchievement == Achievement("", 0)

\* addEvent that announces the event after the rules were evaluated.
addEventFlowEmitLast(done) ==
    CASE done = "recordEvent" -> "getPlayer"
      [] done = "rules" -> "emitEvent"
      [] done = "emitEvent" -> "return"

\* The order of addEvent's three parts after recordEvent: emit, then
\* getPlayer and the rules, then return.
addEventFlow(done) ==
    CASE done = "recordEvent" -> "emitEvent"
      [] done = "emitEvent" -> "getPlayer"
      [] done = "rules" -> "return"

\* The frame of addEvent(player, eventName), its event recorded.
Frame(player, event, eid) ==
    [player |-> player, event |-> event, eid |-> eid,
     pc |-> addEventFlow("recordEvent"), nid |-> nEmits + 1, li |-> 1,
     gamePlayer |-> Undefined, ri |-> 1, keys |-> <<>>, ki |-> 1,
     achievement |-> NoAchievement, awarded |-> <<>>, emitted |-> FALSE]

Top == stack[Len(stack)]

SetTop(f) == [stack EXCEPT ![Len(stack)] = f]

Init ==
    /\ gameStates = [k \in Keys |-> Undefined]
    /\ achievementRules \in {<<>>} \cup { <<r>> : r \in RuleCatalog }
    /\ listeners = [t \in {AGE_EVENT, AGE_ACHIEVED} |-> 0]
    /\ stack = <<>>
    /\ clock = 0
    /\ held = Undefined
    /\ error = "none"
    /\ lastOp = Op("new", NoPlayer, FALSE)
    /\ nEvents = 0
    /\ nEmits = 0
    /\ log = <<>>
    /\ recorded = [k \in Keys |-> <<>>]

\* ------------------------------------------------------------------ engine
\* GameEngine.addPlayer
AddPlayer(player) ==
    /\ stack = <<>>
    /\ gameStates' = recordPlayer(gameStates, player)
    /\ lastOp' = Op("addPlayer", player, Exists(player))
    /\ UNCHANGED <<achievementRules, listeners, stack, clock, held, error,
                   nEvents, nEmits, log, recorded>>

\* Rules and listeners registered so far.
Setup == Len(achievementRules) + listeners[AGE_EVENT] + listeners[AGE_ACHIEVED]

\* addAchievementRule that rejects a rule with an unset key or predicate.
AddAchievementRuleValidated(rule) ==
    /\ stack = <<>>
    /\ Len(achievementRules) < MaxRules
    /\ Setup < MaxSetup
    /\ IF rule.key = DefaultKey \/ rule.predicate = DefaultPredicate
       THEN error' = "Method not implemented." /\ UNCHANGED achievementRules
       ELSE achievementRules' = Append(achievementRules, rule) /\ UNCHANGED error
    /\ lastOp' = Op("addAchievementRule", NoPlayer, FALSE)
    /\ UNCHANGED <<gameStates, listeners, stack, clock, held,
                   nEvents, nEmits, log, recorded>>

\* addAchievementRule that puts the rule before the others (unshift).
AddAchievementRuleAtHead(rule) ==
    /\ stack = <<>>
    /\ Len(achievementRules) < MaxRules
    /\ Setup < MaxSetup
    /\ achievementRules' = <<rule>> \o achievementRules
    /\ lastOp' = Op("addAchievementRule", NoPlayer, FALSE)
    /\ UNCHANGED <<gameStates, listeners, stack, clock, held, error,
                   nEvents, nEmits, log, recorded>>

\* GameEngine.addAchievementRule
AddAchievementRule(rule) ==
    /\ stack = <<>>
    /\ Len(achievementRules) < MaxRules
    /\ Setup < MaxSetup
    /\ achievementRules' = Append(achievementRules, rule)
    /\ lastOp' = Op("addAchievementRule", NoPlayer, FALSE)
    /\ UNCHANGED <<gameStates, listeners, stack, clock, held, error,
                   nEvents, nEmits, log, recorded>>

\* GameEngine.on (and its aliases)
On(type) ==
    /\ stack = <<>>
    /\ listeners[type] < MaxListeners
    /\ Setup < MaxSetup
    /\ listeners' = [listeners EXCEPT ![type] = @ + 1]
    /\ lastOp' = Op("on", NoPlayer, FALSE)
    /\ UNCHANGED <<gameStates, achievementRules, stack, clock, held, error,
                   nEvents, nEmits, log, recorded>>

\* addEvent up to its emit: the event is recorded and the frame pushed on base.
Submit(base, player, eventName) ==
    /\ Len(base) < MaxDepth
    /\ \E now \in Dates(clock) :
          /\ clock' = now
          /\ gameStates' = recordEvent(gameStates, player, Event(eventName), now)
    /\ nEvents' = nEvents + 1
    /\ nEmits' = nEmits + 1
    /\ recorded' = [recorded EXCEPT ![ToPropertyKey(player.id)] =
                       Append(@, [kind |-> "event", name |-> eventName])]
    /\ stack' = Append(base, Frame(player, Event(eventName), nEvents + 1))

\* GameEngine.addEvent, called by the application
AddEvent(player) ==
    /\ stack = <<>>
    /\ nEvents < MaxEvents
    /\ Submit(<<>>, player, "login")
    /\ error' = "none"
    /\ lastOp' = Op("addEvent", player, Exists(player))
    /\ UNCHANGED <<achievementRules, listeners, held, log>>

\* The notification the top frame is dispatching.
Emitting == stack /= <<>> /\ Top.pc \in {"emitEvent", "emitAchieved"}

EmitType(f) == IF f.pc = "emitEvent" THEN AGE_EVENT ELSE AGE_ACHIEVED

\* The player argument of the emit: addEvent passes its own argument,
\* evaluateSingleAchievement passes player.data of the GamePlayer it holds.
EmitPlayer(f) ==
    IF f.pc = "emitEvent" THEN f.player ELSE Deref(gameStates, f.gamePlayer).data

EmitName(f) == IF f.pc = "emitEvent" THEN f.event.name ELSE f.achievement.name

Notification(f) ==
    [type |-> EmitType(f), nid |-> f.nid, listener |-> f.li,
     of |-> listeners[EmitType(f)], nEv |-> listeners[AGE_EVENT],
     eid |-> f.eid,
     player |-> EmitPlayer(f), name |-> EmitName(f)]

\* EventEmitter.emit calls the next listener, which returns.
ListenerReturns ==
    /\ Emitting
    /\ Top.li <= listeners[EmitType(Top)]
    /\ log' = Append(log, Notification(Top))
    /\ stack' = SetTop([Top EXCEPT !.li = @ + 1])
    /\ UNCHANGED <<gameStates, achievementRules, listeners, clock, held, error,
                   lastOp, nEvents, nEmits, recorded>>

\* A listener's throw that takes back the last item of the player's history.
ListenerThrowsUndoing ==
    /\ Emitting
    /\ Top.li <= listeners[EmitType(Top)]
    /\ log' = Append(log, Notification(Top))
    /\ stack' = <<>>
    /\ error' = "listener"
    /\ gameStates' =
           [gameStates EXCEPT ![ToPropertyKey(Top.player.id)].history =
                                   SubSeq(@, 1, Len(@) - 1)]
    /\ UNCHANGED <<achievementRules, listeners, clock, held,
                   lastOp, nEvents, nEmits, recorded>>

\* EventEmitter.emit calls the next listener, which throws: emit does not
\* catch, nor do addAchievement, the rule loops and addEvent above it.
ListenerThrows ==
    /\ Emitting
    /\ Top.li <= listeners[EmitType(Top)]
    /\ log' = Append(log, Notification(Top))
    /\ stack' = <<>>
    /\ error' = "listener"
    /\ UNCHANGED <<gameStates, achievementRules, listeners, clock, held,
                   lastOp, nEvents, nEmits, recorded>>

\* EventEmitter.emit calls the next listener, which calls addEvent for the
\* player it was given ("you can call engine.addEvent again here").
ListenerAddsEvent ==
    /\ Emitting
    /\ Top.li <= listeners[EmitType(Top)]
    /\ log' = Append(log, Notification(Top))
    /\ nEvents < MaxEvents
    /\ Submit(SetTop([Top EXCEPT !.li = @ + 1]), EmitPlayer(Top), "bonus")
    /\ UNCHANGED <<achievementRules, listeners, held, error, lastOp>>

\* Advance that leaves the rule after its first key.
AdvanceToRule(f) ==
    [f EXCEPT !.pc = "rule", !.ri = @ + 1, !.keys = <<>>, !.ki = 1]

\* The key after this one, or the rule after this one.
Advance(f) ==
    IF f.ki < Len(f.keys)
    THEN [f EXCEPT !.pc = "key", !.ki = @ + 1]
    ELSE [f EXCEPT !.pc = "rule", !.ri = @ + 1, !.keys = <<>>, !.ki = 1]

\* EventEmitter.emit returns: every listener was called.
EmitReturns ==
    /\ Emitting
    /\ Top.li > listeners[EmitType(Top)]
    /\ stack' = SetTop(IF Top.pc = "emitEvent"
                       THEN [Top EXCEPT !.pc = addEventFlow("emitEvent"),
                                        !.li = 1, !.emitted = TRUE]
                       ELSE Advance(Top))
    /\ UNCHANGED <<gameStates, achievementRules, listeners, clock, held, error,
                   lastOp, nEvents, nEmits, log, recorded>>

\* addEvent: const gamePlayer = this.getPlayer(player); if (gamePlayer) ...
GetPlayer ==
    /\ stack /= <<>>
    /\ Top.pc = "getPlayer"
    /\ LET g == getPlayer(gameStates, Top.player)
       IN  stack' = SetTop([Top EXCEPT !.gamePlayer = g,
                                       !.pc = IF g = Undefined
                                              THEN addEventFlow("rules")
                                              ELSE "rule"])
    /\ UNCHANGED <<gameStates, achievementRules, listeners, clock, held, error,
                   lastOp, nEvents, nEmits, log, recorded>>

\* evaluateAchievementRule up to its keys.forEach: the rule's key, resolved.
\* The default key is a function that throws.
EvaluateAchievementRule ==
    /\ stack /= <<>>
    /\ Top.pc = "rule"
    /\ Top.ri <= Len(achievementRules)
    /\ LET rule == achievementRules[Top.ri]
           player == Deref(gameStates, Top.gamePlayer)
           keys == IF rule.key.form = "function"
                   THEN KeyFunction(rule.key.fn, player)
                   ELSE rule.key.v
       IN  IF rule.key = DefaultKey
           THEN stack' = <<>> /\ error' = "Method not implemented."
           ELSE /\ stack' = SetTop(IF keys = <<>>
                                   THEN [Top EXCEPT !.ri = @ + 1]
                                   ELSE [Top EXCEPT !.pc = "key", !.keys = keys,
                                                    !.ki = 1])
                /\ UNCHANGED error
    /\ UNCHANGED <<gameStates, achievementRules, listeners, clock, held,
                   lastOp, nEvents, nEmits, log, recorded>>

\* The guard with count > multiplicity for count >= multiplicity.
MultiplicityExceeded(rule, player, key) ==
    /\ rule.multiplicity > 0
    /\ countAchievement(player.achievements, key, rule.multiplicity)
           > rule.multiplicity

\* evaluateSingleAchievement without the multiplicity guard.
MultiplicityUnchecked(rule, player, key) == FALSE

\* The multiplicity guard of evaluateSingleAchievement: TRUE when it returns
\* before the predicate.
MultiplicityReached(rule, player, key) ==
    /\ rule.multiplicity > 0
    /\ countAchievement(player.achievements, key, rule.multiplicity)
           >= rule.multiplicity

\* What an async function returns: a Promise, settled later with value b.
PromiseOf(b) == [promise |-> b]

\* if (achieved): an object, a Promise included, is truthy whatever it holds.
ToBoolean(object) == TRUE

\* An async predicate's value once its Promise has settled.
Settled(predicate) == predicate = "asyncTrue"

\* rule.predicate(player, this): what it returns, as `if (achieved)` takes it.
\* "asyncTrue" is async () => true and "asyncFalse" is async () => false.
PredicateResult(predicate, player) ==
    CASE predicate = "true" -> TRUE
      [] predicate = "false" -> FALSE
      [] predicate = "hasA" -> \E i \in 1 .. Len(player.achievements) :
                                   player.achievements[i].name = "a"
      [] predicate = "wipe" -> FALSE
      [] predicate \in {"asyncTrue", "asyncFalse"} ->
             ToBoolean(PromiseOf(Settled(predicate)))

\* rule.predicate(player, this): what it leaves in the GamePlayer it was given.
PredicateEffect(predicate, player) ==
    IF predicate = "wipe"
    THEN [player EXCEPT !.achievements = <<>>, !.history = <<>>]
    ELSE player

\* evaluateSingleAchievement without the transient branch.
AchievedOutcomeAwards(rule) == "addAchievement"

\* What evaluateSingleAchievement does once the predicate returned true.
AchievedOutcome(rule) == IF rule.transient THEN "throw" ELSE "addAchievement"

\* evaluateSingleAchievement(player, key, rule), up to the emit of
\* addAchievement when it awards.
EvaluateSingleAchievement ==
    /\ stack /= <<>>
    /\ Top.pc = "key"
    /\ LET rule == achievementRules[Top.ri]
           key == Top.keys[Top.ki]
           player == Deref(gameStates, Top.gamePlayer)
           after == PredicateEffect(rule.predicate, player)
           gs == WriteStore(gameStates, Top.gamePlayer, after)
           f == [Top EXCEPT !.gamePlayer = WriteRef(@, after)]
       IN  IF MultiplicityReached(rule, player, key)
           THEN /\ stack' = SetTop(Advance(Top))
                /\ UNCHANGED <<gameStates, clock, error, nEmits, recorded>>
           ELSE IF rule.predicate = DefaultPredicate
           THEN /\ stack' = <<>>
                /\ error' = "Method not implemented."
                /\ UNCHANGED <<gameStates, clock, nEmits, recorded>>
           ELSE IF ~PredicateResult(rule.predicate, player)
           THEN /\ stack' = SetTop(Advance(f))
                /\ gameStates' = gs
                /\ UNCHANGED <<clock, error, nEmits, recorded>>
           ELSE IF AchievedOutcome(rule) = "throw"
           THEN /\ stack' = <<>>
                /\ error' = "TODO: Transient rules not implemented"
                /\ gameStates' = gs
                /\ UNCHANGED <<clock, nEmits, recorded>>
           ELSE \E now \in Dates(clock) :
                   LET achievement == Achievement(key, now)
                       data == Deref(gs, f.gamePlayer).data
                   IN  /\ clock' = now
                       /\ gameStates' = recordAchievement(gs, data, achievement)
                       /\ recorded' = [recorded EXCEPT ![ToPropertyKey(data.id)] =
                              Append(@, [kind |-> "achievement", name |-> key])]
                       /\ nEmits' = nEmits + 1
                       /\ stack' = SetTop([f EXCEPT !.pc = "emitAchieved",
                                                    !.nid = nEmits + 1, !.li = 1,
                                                    !.achievement = achievement,
                                                    !.awarded = Append(@, key)])
                       /\ UNCHANGED error
    /\ UNCHANGED <<achievementRules, listeners, held, lastOp, nEvents, log>>

\* this.achievementRules.forEach is over: addEvent goes on to what follows.
RulesDone ==
    /\ stack /= <<>>
    /\ Top.pc = "rule"
    /\ Top.ri > Len(achievementRules)
    /\ stack' = SetTop([Top EXCEPT !.pc = addEventFlow("rules")])
    /\ UNCHANGED <<gameStates, achievementRules, listeners, clock, held, error,
                   lastOp, nEvents, nEmits, log, recorded>>

\* addEvent returns to its caller: the application, or a listener.
Return ==
    /\ stack /= <<>>
    /\ Top.pc = "return"
    /\ stack' = SubSeq(stack, 1, Len(stack) - 1)
    /\ UNCHANGED <<gameStates, achievementRules, listeners, clock, held, error,
                   lastOp, nEvents, nEmits, log, recorded>>

\* ------------------------------------------------------------------ callers
\* The application calls getPlayer and keeps what it returns.
CallerGetPlayer(player) ==
    /\ stack = <<>>
    /\ held' = getPlayer(gameStates, player)
    /\ lastOp' = Op("getPlayer", player, Exists(player))
    /\ UNCHANGED <<gameStates, achievementRules, listeners, stack, clock, error,
                   nEvents, nEmits, log, recorded>>

\* An array of a clone: an object of its own, like the clone it came from.
ArrayOf(items) == [oid |-> "copy", val |-> [items |-> items]]

\* The application calls getPlayerHistory and keeps what it returns.
CallerGetPlayerHistory(player) ==
    /\ stack = <<>>
    /\ held' = ArrayOf(getPlayerHistory(gameStates, player))
    /\ lastOp' = Op("getPlayerHistory", player, Exists(player))
    /\ UNCHANGED <<gameStates, achievementRules, listeners, stack, clock, error,
                   nEvents, nEmits, log, recorded>>

\* The application calls getPlayerAchievements and keeps what it returns.
CallerGetPlayerAchievements(player) ==
    /\ stack = <<>>
    /\ held' = ArrayOf(getPlayerAchievements(gameStates, player))
    /\ lastOp' = Op("getPlayerAchievements", player, Exists(player))
    /\ UNCHANGED <<gameStates, achievementRules, listeners, stack, clock, error,
                   nEvents, nEmits, log, recorded>>

\* The application changes a field of the player object it passed to its last
\* addPlayer or addEvent.  makePlayer keeps that object itself as `data`, so
\* if the call made the GamePlayer the object changed is the stored one; if a
\* GamePlayer was there, the store holds the object of an earlier call.
CallerMutatesArgument ==
    /\ stack = <<>>
    /\ lastOp.op \in {"addPlayer", "addEvent"}
    /\ gameStates' =
           IF lastOp.existed THEN gameStates
           ELSE [gameStates EXCEPT
                     ![ToPropertyKey(lastOp.player.id)].data.tag = "z"]
    /\ lastOp' = Op("mutate", lastOp.player, lastOp.existed)
    /\ UNCHANGED <<achievementRules, listeners, stack, clock, held, error,
                   nEvents, nEmits, log, recorded>>

\* EventEmitter.emit calls the next listener, which renames the event or the
\* achievement it is given.  recordEvent and recordAchievement pushed that
\* very object (the last item: no other addEvent is in progress), and emit
\* hands it to the listeners that follow.
ListenerMutates ==
    /\ Emitting
    /\ Top.li <= listeners[EmitType(Top)]
    /\ Len(stack) = 1
    /\ log' = Append(log, Notification(Top))
    /\ LET k == ToPropertyKey(EmitPlayer(Top).id)
           n == Len(gameStates[k].history)
           m == Len(gameStates[k].achievements)
       IN  IF Top.pc = "emitEvent"
           THEN /\ gameStates' =
                       [gameStates EXCEPT ![k].history[n].event.name = "forged"]
                /\ stack' = SetTop([Top EXCEPT !.li = @ + 1,
                                               !.event.name = "forged"])
           ELSE /\ gameStates' =
                       [gameStates EXCEPT
                            ![k].history[n].achievement.name = "forged",
                            ![k].achievements[m].name = "forged"]
                /\ stack' = SetTop([Top EXCEPT !.li = @ + 1,
                                               !.achievement.name = "forged"])
    /\ UNCHANGED <<achievementRules, listeners, clock, held, error,
                   lastOp, nEvents, nEmits, recorded>>

\* What an application may do to a GamePlayer it holds.
Mutations == {"clear", "push", "retag"}

Mutated(player, m) ==
    CASE m = "clear" -> [player EXCEPT !.achievements = <<>>, !.history = <<>>]
      [] m = "push" -> [player EXCEPT !.achievements =
                                          Append(@, Achievement("forged", 0))]
      [] m = "retag" -> [player EXCEPT !.data.tag = "z", !.id = NumId("9")]

\* The application changes the GamePlayer it holds.
CallerMutate(m) ==
    /\ stack = <<>>
    /\ held /= Undefined
    /\ lastOp.op = "getPlayer"
    /\ LET v == Mutated(Deref(gameStates, held), m)
       IN  /\ held' = WriteRef(held, v)
           /\ gameStates' = WriteStore(gameStates, held, v)
    /\ lastOp' = Op(m, lastOp.player, TRUE)
    /\ UNCHANGED <<achievementRules, listeners, stack, clock, error,
                   nEvents, nEmits, log, recorded>>

Next ==
    \/ \E player \in Players : AddPlayer(player)
    \/ \E rule \in RuleCatalog : AddAchievementRule(rule)
    \/ \E type \in {AGE_EVENT, AGE_ACHIEVED} : On(type)
    \/ \E player \in Players : AddEvent(player)
    \/ ListenerReturns
    \/ ListenerThrows
    \/ ListenerAddsEvent
    \/ EmitReturns
    \/ GetPlayer
    \/ EvaluateAchievementRule
    \/ EvaluateSingleAchievement
    \/ RulesDone
    \/ Return

Spec == Init /\ [][Next]_vars

\* --------------------------------------------------------------- one rule
\* An engine constructed with one rule, to which no rule is added.
InitOneRule ==
    /\ gameStates = [k \in Keys |-> Undefined]
    /\ achievementRules \in { <<r>> : r \in RuleCatalog }
    /\ listeners = [t \in {AGE_EVENT, AGE_ACHIEVED} |-> 0]
    /\ stack = <<>>
    /\ clock = 0
    /\ held = Undefined
    /\ error = "none"
    /\ lastOp = Op("new", NoPlayer, FALSE)
    /\ nEvents = 0
    /\ nEmits = 0
    /\ log = <<>>
    /\ recorded = [k \in Keys |-> <<>>]

NextOneRule ==
    \/ \E player \in Players : AddPlayer(player)
    \/ \E type \in {AGE_EVENT, AGE_ACHIEVED} : On(type)
    \/ \E player \in Players : AddEvent(player)
    \/ ListenerReturns
    \/ ListenerThrows
    \/ ListenerAddsEvent
    \/ EmitReturns
    \/ GetPlayer
    \/ EvaluateAchievementRule
    \/ EvaluateSingleAchievement
    \/ RulesDone
    \/ Return

SpecOneRule == InitOneRule /\ [][NextOneRule]_vars

\* ---------------------------------------------------------------- callers
\* An application that keeps and changes what getPlayer returns, on an engine
\* whose second rule has a predicate that changes the GamePlayer it is given.
WipeRule == AchievementRule(LitKey("c"), 1, FALSE, "wipe")

InitCaller ==
    /\ gameStates = [k \in Keys |-> Undefined]
    /\ achievementRules \in
           { <<WipeRule>>,
             <<AchievementRule(LitKey("a"), 1, FALSE, "true"), WipeRule>> }
    /\ listeners = [t \in {AGE_EVENT, AGE_ACHIEVED} |-> 0]
    /\ stack = <<>>
    /\ clock = 0
    /\ held = Undefined
    /\ error = "none"
    /\ lastOp = Op("new", NoPlayer, FALSE)
    /\ nEvents = 0
    /\ nEmits = 0
    /\ log = <<>>
    /\ recorded = [k \in Keys |-> <<>>]

NextCaller ==
    \/ \E player \in Players : AddPlayer(player)
    \/ \E player \in Players : AddEvent(player)
    \/ EmitReturns
    \/ GetPlayer
    \/ EvaluateAchievementRule
    \/ EvaluateSingleAchievement
    \/ RulesDone
    \/ Return
    \/ \E player \in Players : CallerGetPlayer(player)
    \/ \E m \in Mutations : CallerMutate(m)

SpecCaller == InitCaller /\ [][NextCaller]_vars

\* ---------------------------------------------------------------- scenario
\* One rule with a literal key, multiplicity n > 0 and a predicate that is
\* always true; the application registers players and submits events.
FirstLogin(n) == AchievementRule(LitKey("first-login"), n, FALSE, "true")

InitLogins ==
    /\ gameStates = [k \in Keys |-> Undefined]
    /\ achievementRules \in { <<FirstLogin(n)>> : n \in 1 .. MaxMultiplicity }
    /\ listeners = [t \in {AGE_EVENT, AGE_ACHIEVED} |-> 0]
    /\ stack = <<>>
    /\ clock = 0
    /\ held = Undefined
    /\ error = "none"
    /\ lastOp = Op("new", NoPlayer, FALSE)
    /\ nEvents = 0
    /\ nEmits = 0
    /\ log = <<>>
    /\ recorded = [k \in Keys |-> <<>>]

Login(player) ==
    /\ stack = <<>>
    /\ nEvents < MaxLogins
    /\ Submit(<<>>, player, "login")
    /\ error' = "none"
    /\ lastOp' = Op("addEvent", player, Exists(player))
    /\ UNCHANGED <<achievementRules, listeners, held, log>>

NextLogins ==
    \/ \E player \in Players : AddPlayer(player)
    \/ \E player \in Players : Login(player)
    \/ EmitReturns
    \/ GetPlayer
    \/ EvaluateAchievementRule
    \/ EvaluateSingleAchievement
    \/ RulesDone
    \/ Return

SpecLogins == InitLogins /\ [][NextLogins]_vars

\* ----------------------------------------------------------------- fan-out
\* One non-transient rule of multiplicity 0 whose predicate is always true
\* and whose key is a literal or a list of 0 to 3 names; listeners return.
FanOutKeys ==
    { LitKey("a"), ListKey(<<>>), ListKey(<<"a">>), ListKey(<<"a", "b">>),
      ListKey(<<"b", "a">>), ListKey(<<"a", "b", "a">>) }

FanOut(key) == AchievementRule(key, DefaultMultiplicity, FALSE, "true")

InitFanOut ==
    /\ gameStates = [k \in Keys |-> Undefined]
    /\ achievementRules \in { <<FanOut(key)>> : key \in FanOutKeys }
    /\ listeners = [t \in {AGE_EVENT, AGE_ACHIEVED} |-> 0]
    /\ stack = <<>>
    /\ clock = 0
    /\ held = Undefined
    /\ error = "none"
    /\ lastOp = Op("new", NoPlayer, FALSE)
    /\ nEvents = 0
    /\ nEmits = 0
    /\ log = <<>>
    /\ recorded = [k \in Keys |-> <<>>]

NextFanOut ==
    \/ \E player \in Players : AddPlayer(player)
    \/ On(AGE_ACHIEVED)
    \/ \E player \in Players : Login(player)
    \/ ListenerReturns
    \/ EmitReturns
    \/ GetPlayer
    \/ EvaluateAchievementRule
    \/ EvaluateSingleAchievement
    \/ RulesDone
    \/ Return

SpecFanOut == InitFanOut /\ [][NextFanOut]_vars

\* ------------------------------------------------------------ dynamic key
\* The rule { key: (player) => "seen-" + player.history.length,
\* multiplicity: 0, predicate: () => true }, alone or next to a rule with a
\* literal key.
SeenRule == AchievementRule(FnKey("seen"), 0, FALSE, "true")

InitDynamic ==
    /\ gameStates = [k \in Keys |-> Undefined]
    /\ achievementRules \in
           { <<SeenRule>>,
             <<AchievementRule(LitKey("a"), 1, FALSE, "true"), SeenRule>>,
             <<SeenRule, AchievementRule(LitKey("a"), 0, FALSE, "true")>> }
    /\ listeners = [t \in {AGE_EVENT, AGE_ACHIEVED} |-> 0]
    /\ stack = <<>>
    /\ clock = 0
    /\ held = Undefined
    /\ error = "none"
    /\ lastOp = Op("new", NoPlayer, FALSE)
    /\ nEvents = 0
    /\ nEmits = 0
    /\ log = <<>>
    /\ recorded = [k \in Keys |-> <<>>]

NextDynamic ==
    \/ \E player \in Players : AddPlayer(player)
    \/ \E player \in Players : Login(player)
    \/ EmitReturns
    \/ GetPlayer
    \/ EvaluateAchievementRule
    \/ EvaluateSingleAchievement
    \/ RulesDone
    \/ Return

SpecDynamic == InitDynamic /\ [][NextDynamic]_vars

\* ------------------------------------------------------- async predicates
\* One rule per way a predicate answers: at once or through a Promise, true
\* or false.  The key names the predicate.
Answering(predicate, multiplicity) ==
    AchievementRule(LitKey(predicate), multiplicity, FALSE, predicate)

AnswerKinds == {"true", "false", "asyncTrue", "asyncFalse"}

InitAsync ==
    /\ gameStates = [k \in Keys |-> Undefined]
    /\ achievementRules \in
           { <<Answering(p, n)>> : p \in AnswerKinds, n \in 0 .. 1 }
    /\ listeners = [t \in {AGE_EVENT, AGE_ACHIEVED} |-> 0]
    /\ stack = <<>>
    /\ clock = 0
    /\ held = Undefined
    /\ error = "none"
    /\ lastOp = Op("new", NoPlayer, FALSE)
    /\ nEvents = 0
    /\ nEmits = 0
    /\ log = <<>>
    /\ recorded = [k \in Keys |-> <<>>]

\* addAchievementRule with a rule of this kind
AddAnswering(predicate) ==
    /\ \A i \in 1 .. Len(achievementRules) :
           achievementRules[i].predicate /= predicate
    /\ AddAchievementRule(Answering(predicate, 0))

NextAsync ==
    \/ \E player \in Players : AddPlayer(player)
    \/ \E predicate \in AnswerKinds : AddAnswering(predicate)
    \/ \E player \in Players : AddEvent(player)
    \/ EmitReturns
    \/ GetPlayer
    \/ EvaluateAchievementRule
    \/ EvaluateSingleAchievement
    \/ RulesDone
    \/ Return

SpecAsync == InitAsync /\ [][NextAsync]_vars

\* ---------------------------------------------------------- unset members
\* Rules whose key or predicate was left unset, next to one that has both.
UnsetCatalog ==
    { AchievementRule(LitKey("a"), 1, FALSE, "true"),
      AchievementRule(DefaultKey, DefaultMultiplicity, DefaultTransient,
                      DefaultPredicate),
      AchievementRule(DefaultKey, DefaultMultiplicity, DefaultTransient, "true"),
      AchievementRule(LitKey("a"), 1, FALSE, DefaultPredicate),
      AchievementRule(ListKey(<<"a", "b">>), DefaultMultiplicity,
                      DefaultTransient, DefaultPredicate) }

InitUnset ==
    /\ gameStates = [k \in Keys |-> Undefined]
    /\ achievementRules \in {<<>>} \cup { <<r>> : r \in UnsetCatalog }
    /\ listeners = [t \in {AGE_EVENT, AGE_ACHIEVED} |-> 0]
    /\ stack = <<>>
    /\ clock = 0
    /\ held = Undefined
    /\ error = "none"
    /\ lastOp = Op("new", NoPlayer, FALSE)
    /\ nEvents = 0
    /\ nEmits = 0
    /\ log = <<>>
    /\ recorded = [k \in Keys |-> <<>>]

NextUnset ==
    \/ \E player \in Players : AddPlayer(player)
    \/ \E rule \in UnsetCatalog : AddAchievementRule(rule)
    \/ On(AGE_EVENT)
    \/ \E player \in Players : AddEvent(player)
    \/ ListenerReturns
    \/ ListenerAddsEvent
    \/ EmitReturns
    \/ GetPlayer
    \/ EvaluateAchievementRule
    \/ EvaluateSingleAchievement
    \/ RulesDone
    \/ Return

SpecUnset == InitUnset /\ [][NextUnset]_vars

\* ------------------------------------------------------------------ reads
\* An application that reads between its calls of addPlayer and addEvent, on
\* an engine with no rule or with one.
InitReads ==
    /\ gameStates = [k \in Keys |-> Undefined]
    /\ achievementRules \in
           { <<>>, <<AchievementRule(LitKey("a"), 1, FALSE, "true")>> }
    /\ listeners = [t \in {AGE_EVENT, AGE_ACHIEVED} |-> 0]
    /\ stack = <<>>
    /\ clock = 0
    /\ held = Undefined
    /\ error = "none"
    /\ lastOp = Op("new", NoPlayer, FALSE)
    /\ nEvents = 0
    /\ nEmits = 0
    /\ log = <<>>
    /\ recorded = [k \in Keys |-> <<>>]

NextReads ==
    \/ \E player \in Players : AddPlayer(player)
    \/ \E player \in Players : AddEvent(player)
    \/ EmitReturns
    \/ GetPlayer
    \/ EvaluateAchievementRule
    \/ EvaluateSingleAchievement
    \/ RulesDone
    \/ Return
    \/ \E player \in Players : CallerGetPlayer(player)
    \/ \E player \in Players : CallerGetPlayerHistory(player)
    \/ \E player \in Players : CallerGetPlayerAchievements(player)

SpecReads == InitReads /\ [][NextReads]_vars

\* ------------------------------------------------------------------ order
\* Rules given to the constructor (none, one or two) and rules added later.
OrderCatalog ==
    { AchievementRule(LitKey("a"), 1, FALSE, "true"),
      AchievementRule(ListKey(<<"b", "c">>), 0, FALSE, "true"),
      AchievementRule(ListKey(<<"c", "a">>), 1, FALSE, "true"),
      AchievementRule(LitKey("d"), 0, FALSE, "false"),
      AchievementRule(LitKey("b"), 1, FALSE, "hasA") }

InitOrder ==
    /\ gameStates = [k \in Keys |-> Undefined]
    /\ achievementRules \in
           {<<>>} \cup { <<r>> : r \in OrderCatalog }
                  \cup { <<r, s>> : r, s \in OrderCatalog }
    /\ listeners = [t \in {AGE_EVENT, AGE_ACHIEVED} |-> 0]
    /\ stack = <<>>
    /\ clock = 0
    /\ held = Undefined
    /\ error = "none"
    /\ lastOp = Op("new", NoPlayer, FALSE)
    /\ nEvents = 0
    /\ nEmits = 0
    /\ log = <<>>
    /\ recorded = [k \in Keys |-> <<>>]

NextOrder ==
    \/ \E player \in Players : AddPlayer(player)
    \/ \E rule \in OrderCatalog : AddAchievementRule(rule)
    \/ \E player \in Players : AddEvent(player)
    \/ EmitReturns
    \/ GetPlayer
    \/ EvaluateAchievementRule
    \/ EvaluateSingleAchievement
    \/ RulesDone
    \/ Return

SpecOrder == InitOrder /\ [][NextOrder]_vars

\* ------------------------------------------------------------------ guard
\* A rule that awards "a" up to n times, followed by a rule whose predicate
\* shows that it was invoked: it empties the GamePlayer it is given ("wipe"),
\* or it is unset and throws.
GuardedCatalog ==
    { AchievementRule(key, n, FALSE, predicate) :
          key \in {LitKey("a"), ListKey(<<"a", "b">>)},
          n \in 0 .. MaxMultiplicity,
          predicate \in {"wipe", DefaultPredicate} }

InitGuard ==
    /\ gameStates = [k \in Keys |-> Undefined]
    /\ achievementRules \in
           { <<AchievementRule(LitKey("a"), n, FALSE, "true"), r>> :
                 n \in 1 .. MaxMultiplicity, r \in GuardedCatalog }
    /\ listeners = [t \in {AGE_EVENT, AGE_ACHIEVED} |-> 0]
    /\ stack = <<>>
    /\ clock = 0
    /\ held = Undefined
    /\ error = "none"
    /\ lastOp = Op("new", NoPlayer, FALSE)
    /\ nEvents = 0
    /\ nEmits = 0
    /\ log = <<>>
    /\ recorded = [k \in Keys |-> <<>>]

NextGuard ==
    \/ \E player \in Players : Login(player)
    \/ On(AGE_ACHIEVED)
    \/ ListenerReturns
    \/ EmitReturns
    \/ GetPlayer
    \/ EvaluateAchievementRule
    \/ EvaluateSingleAchievement
    \/ RulesDone
    \/ Return

SpecGuard == InitGuard /\ [][NextGuard]_vars

\* ------------------------------------------------------------ quiet events
\* Engines with no rule, with rules whose predicate is false, and with rules
\* that award until their multiplicity is reached; listeners return.
QuietRules ==
    { <<>>,
      <<AchievementRule(ListKey(<<"a", "b">>), 0, FALSE, "false")>>,
      <<AchievementRule(LitKey("b"), 1, FALSE, "hasA")>>,
      <<AchievementRule(LitKey("a"), 1, FALSE, "true")>>,
      <<AchievementRule(LitKey("a"), 1, FALSE, "true"),
        AchievementRule(LitKey("b"), 1, FALSE, "hasA")>> }

InitQuiet ==
    /\ gameStates = [k \in Keys |-> Undefined]
    /\ achievementRules \in QuietRules
    /\ listeners = [t \in {AGE_EVENT, AGE_ACHIEVED} |-> 0]
    /\ stack = <<>>
    /\ clock = 0
    /\ held = Undefined
    /\ error = "none"
    /\ lastOp = Op("new", NoPlayer, FALSE)
    /\ nEvents = 0
    /\ nEmits = 0
    /\ log = <<>>
    /\ recorded = [k \in Keys |-> <<>>]

NextQuiet ==
    \/ \E player \in Players : AddPlayer(player)
    \/ \E type \in {AGE_EVENT, AGE_ACHIEVED} : On(type)
    \/ \E player \in Players : Login(player)
    \/ ListenerReturns
    \/ EmitReturns
    \/ GetPlayer
    \/ EvaluateAchievementRule
    \/ EvaluateSingleAchievement
    \/ RulesDone
    \/ Return

SpecQuiet == InitQuiet /\ [][NextQuiet]_vars

\* -------------------------------------------------------------------- ids
\* Players whose ids are the number 1, the string "1" and the number 2, on an
\* engine with one rule of multiplicity 1.
IdPlayers ==
    { MkPlayer(NumId("1"), "x"), MkPlayer(StrId("1"), "x"),
      MkPlayer(NumId("2"), "x") }

InitIds ==
    /\ gameStates = [k \in Keys |-> Undefined]
    /\ achievementRules = <<AchievementRule(LitKey("a"), 1, FALSE, "true")>>
    /\ listeners = [t \in {AGE_EVENT, AGE_ACHIEVED} |-> 0]
    /\ stack = <<>>
    /\ clock = 0
    /\ held = Undefined
    /\ error = "none"
    /\ lastOp = Op("new", NoPlayer, FALSE)
    /\ nEvents = 0
    /\ nEmits = 0
    /\ log = <<>>
    /\ recorded = [k \in Keys |-> <<>>]

NextIds ==
    \/ \E player \in IdPlayers : AddPlayer(player)
    \/ \E player \in IdPlayers : Login(player)
    \/ EmitReturns
    \/ GetPlayer
    \/ EvaluateAchievementRule
    \/ EvaluateSingleAchievement
    \/ RulesDone
    \/ Return

SpecIds == InitIds /\ [][NextIds]_vars

\* ---------------------------------------------------------- shared objects
\* An application and listeners that change the objects they passed to the
\* engine or were given by it.
InitShared ==
    /\ gameStates = [k \in Keys |-> Undefined]
    /\ achievementRules \in
           { <<>>, <<AchievementRule(LitKey("a"), 1, FALSE, "true")>> }
    /\ listeners = [t \in {AGE_EVENT, AGE_ACHIEVED} |-> 0]
    /\ stack = <<>>
    /\ clock = 0
    /\ held = Undefined
    /\ error = "none"
    /\ lastOp = Op("new", NoPlayer, FALSE)
    /\ nEvents = 0
    /\ nEmits = 0
    /\ log = <<>>
    /\ recorded = [k \in Keys |-> <<>>]

NextShared ==
    \/ \E player \in Players : AddPlayer(player)
    \/ \E type \in {AGE_EVENT, AGE_ACHIEVED} : On(type)
    \/ \E player \in Players : AddEvent(player)
    \/ ListenerReturns
    \/ ListenerMutates
    \/ EmitReturns
    \/ GetPlayer
    \/ EvaluateAchievementRule
    \/ EvaluateSingleAchievement
    \/ RulesDone
    \/ Return
    \/ CallerMutatesArgument

SpecShared == InitShared /\ [][NextShared]_vars

TypeOK ==
    /\ Len(stack) <= MaxDepth
    /\ Len(achievementRules) <= MaxRules
    /\ clock \in 0 .. MaxClock

\* ------------------------------------------------------------- properties
Defined == { k \in Keys : gameStates[k] /= Undefined }

IsPrefix(a, b) == Len(a) <= Len(b) /\ SubSeq(b, 1, Len(a)) = a

Min(a, b) == IF a <= b THEN a ELSE b

\* What a history item is, as the engine asked for it to be recorded.
ItemKind(h) ==
    IF IsEventItem(h) THEN [kind |-> "event", name |-> h.event.name]
    ELSE [kind |-> "achievement", name |-> h.achievement.name]

EventsRecorded(k) == Len(SelectSeq(recorded[k], LAMBDA r : r.kind = "event"))

\* C1. Multiplicity bound: for every registered rule with multiplicity n > 0
\* and a literal or list key, and every player, the achievements of that
\* player named by a key of the rule never number more than n.
MultiplicityBound ==
    \A i \in 1 .. Len(achievementRules) :
        LET rule == achievementRules[i]
        IN  rule.multiplicity > 0 /\ rule.key.form /= "function" =>
                \A k \in Defined : \A j \in 1 .. Len(rule.key.v) :
                    Occurrences(gameStates[k].achievements, rule.key.v[j])
                        <= rule.multiplicity

\* C2. Mid-evaluation visibility: when a key is about to be evaluated, the
\* GamePlayer used for the multiplicity count and given to the predicate holds
\* every achievement this addEvent has recorded so far.
MidEvaluationVisibility ==
    stack /= <<>> /\ Top.pc = "key" =>
        LET player == Deref(gameStates, Top.gamePlayer)
        IN  \A i \in 1 .. Len(Top.awarded) :
                \E j \in 1 .. Len(player.achievements) :
                    player.achievements[j] = Top.awarded[i]

\* Every notification was given to each listener registered for it.
AllDelivered ==
    \A i \in 1 .. Len(log) : \A l \in 1 .. log[i].of :
        \E j \in 1 .. Len(log) :
            log[j].nid = log[i].nid /\ log[j].listener = l

\* C3. Subscriber isolation: a listener's throw does not end the addEvent in
\* flight, and once the call is over every notification it dispatched has been
\* given to every listener registered for it.
SubscriberIsolation ==
    /\ error /= "listener"
    /\ stack = <<>> => AllDelivered

\* The history of every player is what the engine asked to be recorded for
\* it, in that order: its length is the events plus the achievements recorded.
HistoryIsRecorded ==
    \A k \in Keys :
        IF gameStates[k] = Undefined THEN recorded[k] = <<>>
        ELSE /\ Len(gameStates[k].history) = Len(recorded[k])
             /\ \A i \in 1 .. Len(recorded[k]) :
                    ItemKind(gameStates[k].history[i]) = recorded[k][i]

\* A step keeps every GamePlayer, and keeps or extends at the end its history
\* and its achievements.
Extends ==
    \A k \in Defined :
        /\ gameStates'[k] /= Undefined
        /\ IsPrefix(gameStates[k].history, gameStates'[k].history)
        /\ IsPrefix(gameStates[k].achievements, gameStates'[k].achievements)

\* C4. Append-only history: every step leaves each player's history and
\* achievements as they were or extends them at the end, and the history is,
\* in recording order, the events and achievements recorded for the player.
AppendOnlyHistory == [] HistoryIsRecorded /\ [][Extends]_vars

AchievementItems(history) == SelectSeq(history, IsAchievementItem)

\* C5. History/achievement consistency: a player's achievements are, in order,
\* the achievements of the achievement items of its history, each item stamped
\* with the achieved time, and its history has one event item per event
\* submitted for it.
HistoryAchievementConsistency ==
    \A k \in Defined :
        LET items == AchievementItems(gameStates[k].history)
        IN  /\ Len(items) = Len(gameStates[k].achievements)
            /\ \A i \in 1 .. Len(items) :
                  /\ items[i].achievement = gameStates[k].achievements[i]
                  /\ items[i].timestamp = gameStates[k].achievements[i].achieved
            /\ Len(SelectSeq(gameStates[k].history, IsEventItem))
                   = EventsRecorded(k)

WitnessHistoryAchievementConsistency ==
    \E k \in Defined :
        /\ Len(gameStates[k].achievements) = 2
        /\ Len(gameStates[k].history) = 4
        /\ gameStates[k].history[1].timestamp = 0
        /\ gameStates[k].history[2].timestamp = 1

WitnessAppendOnlyHistory ==
    /\ stack = <<>>
    /\ \E k \in Defined :
          /\ Len(gameStates[k].history) = 4
          /\ IsEventItem(gameStates[k].history[3])
          /\ IsAchievementItem(gameStates[k].history[4])
    /\ lastOp.op = "addPlayer"

\* C6. Idempotent registration: addPlayer for an id that has a GamePlayer
\* leaves the store as it was, whatever the fields of the player given, and a
\* second recordPlayer for the same id changes nothing the first did not.
IdempotentRegistration ==
    /\ [][\A p \in Players : AddPlayer(p) /\ Exists(p) => gameStates' = gameStates]_vars
    /\ [] \A p, q \in Players :
             ToPropertyKey(p.id) = ToPropertyKey(q.id) =>
                 recordPlayer(recordPlayer(gameStates, p), q)
                     = recordPlayer(gameStates, p)

WitnessIdempotentRegistration ==
    /\ lastOp.op = "addPlayer"
    /\ lastOp.existed
    /\ LET g == gameStates[ToPropertyKey(lastOp.player.id)]
       IN  /\ g.data /= lastOp.player
           /\ g.achievements /= <<>>

\* C7. Notification ordering: when a listener is given an achievement, every
\* event-occurred listener has already been given the event that caused it.
NotificationOrdering ==
    \A i \in 1 .. Len(log) :
        log[i].type = AGE_ACHIEVED =>
            \A l \in 1 .. log[i].nEv :
                \E j \in 1 .. i - 1 :
                    /\ log[j].type = AGE_EVENT
                    /\ log[j].eid = log[i].eid
                    /\ log[j].listener = l

\* An event listener submitted a second event, which awarded, and the first
\* event awarded after it.
WitnessNotificationOrdering ==
    \E i, j \in 1 .. Len(log) :
        /\ i < j
        /\ log[i].type = AGE_ACHIEVED /\ log[i].eid = 2
        /\ log[j].type = AGE_ACHIEVED /\ log[j].eid = 1
        /\ log[1].type = AGE_EVENT /\ log[1].eid = 1

\* A GamePlayer obtained from getPlayer is being changed: by the application
\* that holds it, or by the predicate it was given to.
WipeStep ==
    /\ stack /= <<>>
    /\ Top.pc = "key"
    /\ achievementRules[Top.ri].predicate = "wipe"
    /\ ~MultiplicityReached(achievementRules[Top.ri],
                            Deref(gameStates, Top.gamePlayer), Top.keys[Top.ki])

\* C8. getPlayer returns an independent copy: a change made to a GamePlayer
\* obtained from getPlayer leaves the store as it was, so getPlayer returns
\* afterwards what it returned before.
IndependentCopy ==
    [][(\E m \in Mutations : CallerMutate(m)) \/ WipeStep =>
          /\ gameStates' = gameStates
          /\ \A p \in Players :
                getPlayer(gameStates', p) = getPlayer(gameStates, p)]_vars

WitnessIndependentCopy ==
    /\ lastOp.op = "clear"
    /\ held /= Undefined
    /\ Deref(gameStates, held).history = <<>>
    /\ gameStates[ToPropertyKey(lastOp.player.id)].achievements /= <<>>

\* A transient rule's predicate is about to be invoked, and returns b.
TransientPredicate(b) ==
    /\ stack /= <<>>
    /\ Top.pc = "key"
    /\ achievementRules[Top.ri].transient
    /\ ~MultiplicityReached(achievementRules[Top.ri],
                            Deref(gameStates, Top.gamePlayer), Top.keys[Top.ki])
    /\ PredicateResult(achievementRules[Top.ri].predicate,
                       Deref(gameStates, Top.gamePlayer)) = b

TransientError == "TODO: Transient rules not implemented"

\* C9. Transient rules are rejected: when a transient rule's predicate returns
\* true, addEvent fails with the not-implemented error, nothing is recorded
\* and no listener is called; when it returns false, addEvent goes on.
TransientRejected ==
    /\ [][TransientPredicate(TRUE) =>
             /\ stack' = <<>>
             /\ error' = TransientError
             /\ gameStates' = gameStates
             /\ recorded' = recorded
             /\ log' = log]_vars
    /\ [][TransientPredicate(FALSE) =>
             /\ stack' /= <<>>
             /\ error' = error
             /\ gameStates' = gameStates]_vars

WitnessTransientRejected ==
    /\ error = TransientError
    /\ stack = <<>>
    /\ \E k \in Defined :
          /\ Occurrences(gameStates[k].achievements, "a") = 1
          /\ Occurrences(gameStates[k].achievements, "c") = 0
          /\ Len(gameStates[k].history) >= 3

\* C10. Bounded awarding: with the one rule of the scenario, of multiplicity
\* n, a player that m events were submitted for has min(m, n) achievements of
\* the rule's key and m + min(m, n) history items, the achievement items being
\* the items 2, 4, .., 2 * min(m, n): each award directly after its event.
BoundedAwarding ==
    stack = <<>> =>
        \A k \in Defined :
            LET n == achievementRules[1].multiplicity
                m == EventsRecorded(k)
                h == gameStates[k].history
            IN  /\ Occurrences(gameStates[k].achievements, "first-login")
                       = Min(m, n)
                /\ Len(gameStates[k].achievements) = Min(m, n)
                /\ Len(h) = m + Min(m, n)
                /\ \A i \in 1 .. Len(h) :
                       IsAchievementItem(h[i])
                           <=> (i <= 2 * Min(m, n) /\ i % 2 = 0)

\* n = 1, m = 3: event, achievement, event, event.
WitnessBoundedAwarding ==
    /\ stack = <<>>
    /\ achievementRules[1].multiplicity = 1
    /\ \E k \in Defined :
          /\ EventsRecorded(k) = 3
          /\ Len(gameStates[k].history) = 4
          /\ IsAchievementItem(gameStates[k].history[2])

RECURSIVE Repeat(_, _)
Repeat(s, n) == IF n = 0 THEN <<>> ELSE s \o Repeat(s, n - 1)

Names(arr) == [i \in 1 .. Len(arr) |-> arr[i].name]

\* The names a listener was given by the achievement notifications of an event.
Announced(eid, l) ==
    Names(SelectSeq(log, LAMBDA n : n.type = AGE_ACHIEVED /\ n.eid = eid
                                       /\ n.listener = l))

\* C11. Key fan-out: with the one rule of multiplicity 0, always-true
\* predicate and a key of k names, an addEvent that returns has recorded the k
\* names in list order and emitted k achievement notifications, each listener
\* being given the k names in that order; a player that m events were
\* submitted for has m times the list as its achievements, however large m.
KeyFanOut ==
    LET ks == achievementRules[1].key.v
    IN  /\ stack /= <<>> /\ Top.pc = "return" =>
              /\ Top.awarded = ks
              /\ \A l \in 1 .. listeners[AGE_ACHIEVED] :
                     Announced(Top.eid, l) = ks
        /\ stack = <<>> =>
              /\ nEmits = nEvents * (1 + Len(ks))
              /\ \A k \in Defined :
                     Names(gameStates[k].achievements)
                         = Repeat(ks, EventsRecorded(k))

\* Three events for one player under the key [a, b, a], one listener.
WitnessKeyFanOut ==
    /\ stack = <<>>
    /\ achievementRules[1].key.v = <<"a", "b", "a">>
    /\ listeners[AGE_ACHIEVED] = 1
    /\ \E k \in Defined :
          /\ EventsRecorded(k) = 3
          /\ Len(gameStates[k].achievements) = 9
    /\ Announced(3, 1) = <<"a", "b", "a">>

\* The index of the last event item of a history (0 if it has none).
RECURSIVE LastEvent(_)
LastEvent(history) ==
    IF history = <<>> THEN 0
    ELSE IF IsEventItem(history[Len(history)]) THEN Len(history)
    ELSE LastEvent(SubSeq(history, 1, Len(history) - 1))

\* A key function is about to be invoked.
KeyInvoked ==
    /\ stack /= <<>>
    /\ Top.pc = "rule"
    /\ Top.ri <= Len(achievementRules)
    /\ achievementRules[Top.ri].key.form = "function"

\* C12. Dynamic keys: the player a key function is given has as its history
\* the stored history up to and including the event that was submitted, so
\* "seen-" + history.length names the position of that event; with that rule
\* alone, the i-th event of a player awards "seen-" + (2i - 1), all distinct.
DynamicKeyState ==
    /\ KeyInvoked =>
          LET player == Deref(gameStates, Top.gamePlayer)
              stored == gameStates[ToPropertyKey(Top.player.id)].history
              n == LastEvent(stored)
          IN  /\ n > 0
              /\ stored[n].event = Top.event
              /\ player.history = SubSeq(stored, 1, n)
              /\ KeyFunction(achievementRules[Top.ri].key.fn, player)
                     = <<"seen-" \o NumToString(n)>>
    /\ stack = <<>> /\ Len(achievementRules) = 1 =>
          \A k \in Defined :
              LET a == gameStates[k].achievements
              IN  /\ Len(a) = EventsRecorded(k)
                  /\ \A i \in 1 .. Len(a) :
                         a[i].name = "seen-" \o NumToString(2 * i - 1)
                  /\ \A i, j \in 1 .. Len(a) : i /= j => a[i].name /= a[j].name

\* Two events for one player under the rule alone: seen-1 and seen-3.
WitnessDynamicKeyState ==
    /\ stack = <<>>
    /\ achievementRules = <<SeenRule>>
    /\ \E k \in Defined :
          /\ EventsRecorded(k) = 2
          /\ Names(gameStates[k].achievements) = <<"seen-1", "seen-3">>

\* What a predicate answers in the end: its Promise's value if it is async.
EventualAnswer(predicate) ==
    IF predicate \in {"asyncTrue", "asyncFalse"} THEN Settled(predicate)
    ELSE predicate = "true"

\* C13. Asynchronous predicates are awaited: an achievement is recorded only
\* under a rule whose predicate's eventual answer is true, so no player holds
\* an achievement of a rule whose predicate, at once or through a Promise,
\* answers false.
AsyncPredicateAwaited ==
    \A k \in Defined : \A i \in 1 .. Len(gameStates[k].achievements) :
        EventualAnswer(gameStates[k].achievements[i].name)

NotImplemented == "Method not implemented."

\* The unset key of a rule is about to be invoked, or its unset predicate.
UnsetInvoked ==
    /\ stack /= <<>>
    /\ \/ /\ Top.pc = "rule"
          /\ Top.ri <= Len(achievementRules)
          /\ achievementRules[Top.ri].key = DefaultKey
       \/ /\ Top.pc = "key"
          /\ achievementRules[Top.ri].predicate = DefaultPredicate
          /\ ~MultiplicityReached(achievementRules[Top.ri],
                                  Deref(gameStates, Top.gamePlayer),
                                  Top.keys[Top.ki])

Read ==
    \E player \in Players :
        \/ CallerGetPlayer(player)
        \/ CallerGetPlayerHistory(player)
        \/ CallerGetPlayerAchievements(player)

\* C15. Not-found reads: for a player whose id has no GamePlayer, getPlayer
\* returns undefined and getPlayerHistory and getPlayerAchievements return
\* empty arrays; a read raises nothing, makes no GamePlayer and leaves the
\* store as it was.
NotFoundReads ==
    /\ [] \A p \in Players :
             ~Exists(p) =>
                 /\ getPlayer(gameStates, p) = Undefined
                 /\ getPlayerHistory(gameStates, p) = <<>>
                 /\ getPlayerAchievements(gameStates, p) = <<>>
    /\ [] (lastOp.op \in {"getPlayer", "getPlayerHistory",
                          "getPlayerAchievements"} /\ ~lastOp.existed =>
              /\ ~Exists(lastOp.player)
              /\ held = IF lastOp.op = "getPlayer" THEN Undefined
                        ELSE ArrayOf(<<>>))
    /\ [][Read => /\ gameStates' = gameStates
                  /\ recorded' = recorded
                  /\ error' = error]_vars

\* getPlayerHistory found nothing for one id while another id has a history.
WitnessNotFoundReads ==
    /\ lastOp.op = "getPlayerHistory"
    /\ ~lastOp.existed
    /\ held = ArrayOf(<<>>)
    /\ ~Exists(lastOp.player)
    /\ \E k \in Defined : Len(gameStates[k].history) = 2

\* addEvent is called for a player whose id has no GamePlayer.
ImplicitCreation(p) == AddEvent(p) /\ ~Exists(p)

\* C16. Implicit player creation: addEvent for a player whose id has no
\* GamePlayer makes one, with the player's id and data, no achievement and a
\* history of that one event, and leaves the store as addPlayer followed by
\* the same addEvent would (addPlayer changes nothing else that addEvent
\* reads, so the rules and the notifications that follow are the same); a
\* GamePlayer, once it exists, exists after every step, under the same id.
ImplicitPlayerCreation ==
    /\ [][\A p \in Players :
             ImplicitCreation(p) =>
                 LET k == ToPropertyKey(p.id)
                 IN  /\ gameStates'[k] /= Undefined
                     /\ gameStates'[k].id = p.id
                     /\ gameStates'[k].data = p
                     /\ gameStates'[k].achievements = <<>>
                     /\ gameStates'[k].history
                            = <<EventItem(clock', Event("login"))>>
                     /\ gameStates' = recordEvent(recordPlayer(gameStates, p),
                                                  p, Event("login"), clock')
                     /\ Top'.player = p]_vars
    /\ [][\A k \in Defined :
             /\ gameStates'[k] /= Undefined
             /\ gameStates'[k].id = gameStates[k].id]_vars
    /\ [] \A k \in Defined :
             /\ ToPropertyKey(gameStates[k].id) = k
             /\ gameStates[k].data.id = gameStates[k].id

\* The player of an addEvent, never registered, was awarded by the rule, and
\* its one listener was told.
WitnessImplicitPlayerCreation ==
    /\ stack = <<>>
    /\ lastOp.op = "addEvent"
    /\ ~lastOp.existed
    /\ LET g == gameStates[ToPropertyKey(lastOp.player.id)]
       IN  /\ g /= Undefined
           /\ g.data = lastOp.player
           /\ Len(g.history) = 2
           /\ Len(g.achievements) = 1
    /\ \E i \in 1 .. Len(log) :
          log[i].type = AGE_ACHIEVED /\ log[i].player = lastOp.player

\* The keys of a rule that award when evaluated against player, in list order.
RuleAwards(rule, player) ==
    SelectSeq(rule.key.v,
              LAMBDA key : /\ ~MultiplicityReached(rule, player, key)
                           /\ PredicateResult(rule.predicate, player))

\* What rules award when evaluated one after the other against player.
RECURSIVE EventAwards(_, _)
EventAwards(rules, player) ==
    IF rules = <<>> THEN <<>>
    ELSE RuleAwards(Head(rules), player) \o EventAwards(Tail(rules), player)

Last(s, n) == SubSeq(s, Len(s) - n + 1, Len(s))

\* C17. Evaluation order: a rule registered is put after the rules already
\* there; when addEvent comes to the i-th rule it has awarded what the rules
\* before it award, taken in registration order and each rule's keys in list
\* order, and when it returns it has awarded what all the rules award; these
\* awards are, in that order, the last achievements of the player and the
\* last items of its history.
EvaluationOrder ==
    /\ [][achievementRules' /= achievementRules =>
             /\ IsPrefix(achievementRules, achievementRules')
             /\ Len(achievementRules') = Len(achievementRules) + 1]_vars
    /\ [] (stack /= <<>> /\ Top.pc \in {"rule", "return"} =>
              LET player == Deref(gameStates, Top.gamePlayer)
                  stored == gameStates[ToPropertyKey(Top.player.id)]
                  done == IF Top.pc = "return" THEN Len(achievementRules)
                          ELSE Top.ri - 1
                  n == Len(Top.awarded)
              IN  /\ Top.awarded
                         = EventAwards(SubSeq(achievementRules, 1, done), player)
                  /\ Names(Last(stored.achievements, n)) = Top.awarded
                  /\ \A i \in 1 .. n :
                         ItemKind(Last(stored.history, n)[i])
                             = [kind |-> "achievement", name |-> Top.awarded[i]])

\* The rule with keys [b, c] before the rule with key a: b, c, a.
WitnessEvaluationOrder ==
    /\ stack /= <<>>
    /\ Top.pc = "return"
    /\ Top.awarded = <<"b", "c", "a">>
    /\ Len(gameStates[ToPropertyKey(Top.player.id)].history) > 4

\* evaluateSingleAchievement is about to be called for a key.
KeyStep == stack /= <<>> /\ Top.pc = "key"

\* The key occurs n or more times in the GamePlayer being evaluated, n > 0
\* being the rule's multiplicity.
Guarded ==
    LET rule == achievementRules[Top.ri]
    IN  /\ rule.multiplicity > 0
        /\ Occurrences(Deref(gameStates, Top.gamePlayer).achievements,
                       Top.keys[Top.ki]) >= rule.multiplicity

\* What shows in the step that the predicate was invoked: the unset one
\* throws, "wipe" empties the GamePlayer, "true" has the key recorded.
Invoked ==
    LET rule == achievementRules[Top.ri]
        k == ToPropertyKey(Top.player.id)
    IN  CASE rule.predicate = DefaultPredicate ->
                 error' = "Method not implemented." /\ stack' = <<>>
          [] rule.predicate = "wipe" ->
                 /\ stack' /= <<>>
                 /\ Deref(gameStates', Top'.gamePlayer).achievements = <<>>
                 /\ Deref(gameStates', Top'.gamePlayer).history = <<>>
          [] rule.predicate = "true" ->
                 /\ recorded'[k] = Append(recorded[k],
                        [kind |-> "achievement", name |-> Top.keys[Top.ki]])
                 /\ nEmits' = nEmits + 1

\* C18. Multiplicity guard precedes the predicate: for a rule of multiplicity
\* n > 0 and a key that occurs n or more times in the GamePlayer being
\* evaluated, the step neither invokes the predicate nor records nor announces
\* anything and goes on to the next key; in every other case, multiplicity 0
\* included, the predicate is invoked for the key.
GuardPrecedesPredicate ==
    /\ [][KeyStep /\ Guarded =>
             /\ stack' = SetTop(Advance(Top))
             /\ error' = error
             /\ gameStates' = gameStates
             /\ recorded' = recorded
             /\ nEmits' = nEmits
             /\ log' = log]_vars
    /\ [][KeyStep /\ ~Guarded => Invoked]_vars

\* The third event of a player that holds two "a": the rule of multiplicity 1
\* with the unset predicate was passed over, and the event went on.
WitnessGuardPrecedesPredicate ==
    /\ stack /= <<>>
    /\ Top.pc = "return"
    /\ Top.eid = 3
    /\ achievementRules[2].predicate = DefaultPredicate
    /\ achievementRules[2].multiplicity = 1
    /\ achievementRules[2].key.v = <<"a">>
    /\ Occurrences(Deref(gameStates, Top.gamePlayer).achievements, "a") = 2
    /\ Top.awarded = <<>>
    /\ error = "none"

History(k) == IF gameStates[k] = Undefined THEN <<>> ELSE gameStates[k].history

Achievements(k) ==
    IF gameStates[k] = Undefined THEN <<>> ELSE gameStates[k].achievements

\* An addEvent is in progress in which no rule awards: there is no rule, or
\* for every key of every rule the multiplicity is reached or the predicate
\* returns false for the player as it is when the rules are evaluated.
QuietEvent ==
    /\ stack /= <<>>
    /\ EventAwards(achievementRules,
                   IF Top.gamePlayer = Undefined
                   THEN gameStates[ToPropertyKey(Top.player.id)]
                   ELSE Deref(gameStates, Top.gamePlayer)) = <<>>

\* The notifications of a type that listener l was given for event eid.
Told(type, eid, l) ==
    Len(SelectSeq(log, LAMBDA n : n.type = type /\ n.eid = eid
                                      /\ n.listener = l))

\* C19. Frame of a non-awarding event: addEvent appends one event item to its
\* player's history and makes one emit; if no rule awards, no later step of
\* the call changes the store or makes an emit, and when it returns each
\* event-occurred listener was told once and no achievement-achieved listener
\* was told.  Without rules, a player with one event has no achievement and a
\* history of one entry.
NonAwardingFrame ==
    /\ [][\A p \in Players :
             Login(p) =>
                 LET k == ToPropertyKey(p.id)
                 IN  /\ gameStates'[k] /= Undefined
                     /\ gameStates'[k].history
                            = Append(History(k), EventItem(clock', Event("login")))
                     /\ gameStates'[k].achievements = Achievements(k)
                     /\ \A o \in Keys \ {k} : gameStates'[o] = gameStates[o]
                     /\ nEmits' = nEmits + 1]_vars
    /\ [][QuietEvent =>
             /\ gameStates' = gameStates
             /\ recorded' = recorded
             /\ nEmits' = nEmits
             /\ error' = error]_vars
    /\ [] (QuietEvent /\ Top.pc = "return" =>
              /\ Top.awarded = <<>>
              /\ \A l \in 1 .. listeners[AGE_EVENT] :
                     Told(AGE_EVENT, Top.eid, l) = 1
              /\ \A l \in 1 .. listeners[AGE_ACHIEVED] :
                     Told(AGE_ACHIEVED, Top.eid, l) = 0)
    /\ [] (achievementRules = <<>> /\ stack = <<>> =>
              \A p \in Players :
                  EventsRecorded(ToPropertyKey(p.id)) = 1 =>
                      /\ getPlayerAchievements(gameStates, p) = <<>>
                      /\ Len(getPlayerHistory(gameStates, p)) = 1)

\* The third event of a player that holds "a" and "b": both rules are passed
\* over, and the event listener was told.
WitnessNonAwardingFrame ==
    /\ QuietEvent
    /\ Top.pc = "return"
    /\ Top.eid = 3
    /\ Len(achievementRules) = 2
    /\ listeners[AGE_EVENT] = 1
    /\ Names(Deref(gameStates, Top.gamePlayer).achievements) = <<"a", "b">>
    /\ Told(AGE_EVENT, 3, 1) = 1

\* C20. Achievement notification payload: the player an achievement-achieved
\* notification carries is the record addEvent was called with, which the
\* event-occurred notification of that event carried, and its achievement is
\* the one just recorded, named by the key that was evaluated.
AchievementPayload ==
    /\ stack /= <<>> /\ Top.pc = "emitAchieved" =>
          /\ EmitPlayer(Top) = Top.player
          /\ EmitName(Top) = Top.keys[Top.ki]
    /\ \A i, j \in 1 .. Len(log) :
          /\ log[i].type = AGE_ACHIEVED
          /\ log[j].type = AGE_EVENT
          /\ log[j].eid = log[i].eid
          => log[i].player = log[j].player

\* The recordings the engine asked for so far, all players taken together.
RECURSIVE TotalRecorded(_)
TotalRecorded(keys) ==
    IF keys = {} THEN 0
    ELSE LET k == CHOOSE k \in keys : TRUE
         IN  Len(recorded[k]) + TotalRecorded(keys \ {k})

\* The item the top frame is announcing is in what getPlayer returns for the
\* player of the notification.
Recorded ==
    LET g == getPlayer(gameStates, EmitPlayer(Top))
    IN  /\ g /= Undefined
        /\ IF Top.pc = "emitEvent"
           THEN \E i \in 1 .. Len(Deref(gameStates, g).history) :
                   /\ IsEventItem(Deref(gameStates, g).history[i])
                   /\ Deref(gameStates, g).history[i].event = Top.event
           ELSE /\ \E i \in 1 .. Len(Deref(gameStates, g).achievements) :
                      Deref(gameStates, g).achievements[i] = Top.achievement
                /\ \E i \in 1 .. Len(Deref(gameStates, g).history) :
                      Deref(gameStates, g).history[i]
                          = AchievementItem(Top.achievement.achieved,
                                            Top.achievement)

\* What the notifications numbered from up to nEmits that listeners were given
\* for the player of key k announce, in the order of the emit calls.
RECURSIVE AnnouncedFor(_, _)
AnnouncedFor(k, from) ==
    IF from > nEmits THEN <<>>
    ELSE LET told == { i \in 1 .. Len(log) :
                           /\ log[i].nid = from
                           /\ ToPropertyKey(log[i].player.id) = k }
         IN  (IF told = {} THEN <<>>
              ELSE LET n == log[CHOOSE i \in told : TRUE]
                   IN  <<[kind |-> IF n.type = AGE_EVENT THEN "event"
                                   ELSE "achievement",
                          name |-> n.name]>>)
             \o AnnouncedFor(k, from + 1)

\* a is b with some of its elements left out.
RECURSIVE IsSubsequence(_, _)
IsSubsequence(a, b) ==
    IF a = <<>> THEN TRUE
    ELSE IF b = <<>> THEN FALSE
    ELSE IF Head(a) = Head(b) THEN IsSubsequence(Tail(a), Tail(b))
    ELSE IsSubsequence(a, Tail(b))

\* C21. Record before announce, exactly once: a step records an item exactly
\* when it starts the emit that announces it, so there are as many emits as
\* recordings, in the same order; whenever a listener is called, getPlayer
\* returns a GamePlayer that holds the item announced; no listener is given a
\* notification twice, and what listeners were given about a player follows,
\* emit by emit, the order in which it was recorded.
RecordBeforeAnnounce ==
    /\ [] (nEmits = TotalRecorded(Keys))
    /\ [][\A k \in Keys :
             recorded'[k] /= recorded[k] =>
                 /\ Len(recorded'[k]) = Len(recorded[k]) + 1
                 /\ nEmits' = nEmits + 1
                 /\ Top'.pc \in {"emitEvent", "emitAchieved"}
                 /\ Top'.nid = nEmits'
                 /\ Top'.li = 1
                 /\ ToPropertyKey(EmitPlayer(Top').id) = k
                 /\ EmitName(Top') = recorded'[k][Len(recorded'[k])].name]_vars
    /\ [][nEmits' /= nEmits => recorded' /= recorded]_vars
    /\ [] (Emitting => Recorded)
    /\ [] \A i, j \in 1 .. Len(log) :
             log[i].nid = log[j].nid /\ log[i].listener = log[j].listener
                 => i = j
    /\ [] \A k \in Keys : IsSubsequence(AnnouncedFor(k, 1), recorded[k])

\* Two listeners of events, the first of which submitted a second event: the
\* second listener was told of the second event before the first, and both
\* events awarded.
WitnessRecordBeforeAnnounce ==
    /\ stack = <<>>
    /\ error = "none"
    /\ nEmits = 4
    /\ \E i, j \in 1 .. Len(log) :
          /\ i < j
          /\ log[i].listener = 2 /\ log[j].listener = 2
          /\ log[i].nid > log[j].nid
    /\ \E k \in Keys : Len(AnnouncedFor(k, 1)) = 2 /\ Len(recorded[k]) = 4

\* The step ends the addEvent calls in progress with an error.
Fails == stack /= <<>> /\ stack' = <<>> /\ error' /= "none"

\* The event of frame f and what f awarded are in the store gs.
Kept(gs, f) ==
    LET g == gs[ToPropertyKey(f.player.id)]
    IN  /\ g /= Undefined
        /\ \E i \in 1 .. Len(g.history) :
              IsEventItem(g.history[i]) /\ g.history[i].event = f.event
        /\ \A i \in 1 .. Len(f.awarded) :
              Occurrences(g.achievements, f.awarded[i]) > 0

\* C22. No rollback on failure: the step in which an addEvent fails leaves the
\* store as it was, with the event and the awards of every call in progress;
\* if it fails in its rules or in an achievement's listener, its event emit was
\* over; nothing more is evaluated for it, and the next addEvent starts at the
\* first rule with a clone of the store as it stands.
NoRollback ==
    /\ [][Fails =>
             /\ gameStates' = gameStates
             /\ recorded' = recorded
             /\ \A i \in 1 .. Len(stack) : Kept(gameStates', stack[i])
             /\ Top.pc \in {"rule", "key", "emitAchieved"} => Top.emitted]_vars
    /\ [] (error /= "none" => stack = <<>>)
    /\ [][error /= "none" /\ stack' /= <<>> =>
             /\ Len(stack') = 1
             /\ error' = "none"
             /\ Top'.eid = nEvents + 1
             /\ Top'.ri = 1
             /\ Top'.awarded = <<>>]_vars
    /\ [][stack /= <<>> /\ Top.pc = "getPlayer" =>
             /\ Top'.ri = 1
             /\ Top'.gamePlayer /= Undefined
             /\ Deref(gameStates', Top'.gamePlayer)
                    = gameStates[ToPropertyKey(Top.player.id)]]_vars

\* The second addEvent of a player came to its rules after the first had
\* awarded "a" and then failed on the rule after it.
WitnessNoRollback ==
    /\ stack /= <<>>
    /\ Top.eid = 2
    /\ Top.pc = "rule"
    /\ Len(achievementRules) = 2
    /\ LET g == gameStates[ToPropertyKey(Top.player.id)]
       IN  /\ Names(g.achievements) = <<"a">>
           /\ Len(g.history) = 3
           /\ IsAchievementItem(g.history[2])
    /\ EventsRecorded(ToPropertyKey(Top.player.id)) = 2
    /\ achievementRules[2].key = DefaultKey

\* The player the step works for: the argument of addPlayer or addEvent, or
\* the player of the addEvent in progress.
WorksFor(p) ==
    \/ AddPlayer(p)
    \/ Login(p)
    \/ stack /= <<>> /\ Top.player = p /\ gameStates' /= gameStates

\* C23. Per-player isolation: a step that works for one player leaves what
\* getPlayer returns for every player with another id as it was, the number 1
\* and the string "1" being two ids; and the GamePlayer of a player has the id
\* the player was supplied with.
PlayerIsolation ==
    /\ [][\A p, q \in IdPlayers :
             WorksFor(p) /\ q.id /= p.id =>
                 getPlayer(gameStates', q) = getPlayer(gameStates, q)]_vars
    /\ [] \A q \in IdPlayers :
             getPlayer(gameStates, q) /= Undefined =>
                 Deref(gameStates, getPlayer(gameStates, q)).id = q.id

\* C24. Stored state changes only through record operations: when the
\* application changes the player object it passed in, or a listener the event
\* or achievement it was given, getPlayer, getPlayerHistory and
\* getPlayerAchievements return for every player what they returned before.
OnlyRecordsChangeStore ==
    [][CallerMutatesArgument \/ ListenerMutates =>
          \A p \in Players :
              /\ getPlayer(gameStates', p) = getPlayer(gameStates, p)
              /\ getPlayerHistory(gameStates', p)
                     = getPlayerHistory(gameStates, p)
              /\ getPlayerAchievements(gameStates', p)
                     = getPlayerAchievements(gameStates, p)]_vars

====
